---- MODULE Spec2Model ----
(***************************************************************************)
(* AutoTaskAI: the webhook -> LLM -> Linear pipeline.                      *)
(*                                                                         *)
(* One run of TaskOrchestrator.processGitHubEvent, with every outbound     *)
(* call (Linear issues/users/issueLabels/createIssueLabel/createIssue/     *)
(* updateIssue, OpenAI chat completion) as one step whose outcome the      *)
(* environment chooses.  Every outbound call is appended to `calls`.       *)
(*                                                                         *)
(* Spec is that run; SpecMapper, SpecLabels and SpecAssignee are one call  *)
(* of LinearService.processLLMSuggestions; SpecWebhook is one delivery to  *)
(* the webhook endpoint; SpecEvent is determineEventType on every payload; *)
(* SpecHealth is TaskOrchestrator.healthCheck.                             *)
(***************************************************************************)
EXTENDS Integers, Sequences, FiniteSets, TLC

\* ------------------------------------------------------------------ bounds
MaxSuggestions == 2
MaxCommits == 4
MaxHealthChecks == 6
MaxRequests == 2
MaxMessages == 2
MaxEnrichments == 2

\* ------------------------------------------------------- program constants
\* suggestion.confidence < 0.7, confidences counted in hundredths
ConfidenceThreshold == 70
\* enum LogLevel
DEBUG == 0
INFO == 1
WARN == 2
ERROR == 3

\* -------------------------------------------------------- optional values
\* A JavaScript value that may be undefined: <<>> is undefined, <<x>> is x.
None == <<>>
Some(x) == <<x>>
IsSome(o) == o # <<>>
Get(o) == o[1]

\* undefined for string-valued fields (existingTaskId, assignee, assigneeId)
Undefined == "undefined"

\* ------------------------------------------------------------ input domains
TaskIds == {"T1"}
UserNames == {"alice"}

\* the names left as they are spelled
toLowerCase_identity(name) == name
\* String.prototype.toLowerCase on the label names bug, Bug, bugfix, Bugfix
toLowerCase(name) ==
  CASE name = "Bug" -> "bug"
    [] name = "DEBUG" -> "debug"
    [] name = "Bugfix" -> "bugfix"
    [] OTHER -> name

\* String.prototype.includes on those names: needle is a substring of hay
includes(hay, needle) ==
  \/ hay = needle
  \/ hay = "bugfix" /\ needle = "bug"
  \/ hay = "Bugfix" /\ needle = "Bug"

RECURSIVE SeqsUpTo(_, _)
SeqsUpTo(S, n) ==
  IF n = 0 THEN {<<>>}
  ELSE LET shorter == SeqsUpTo(S, n - 1)
       IN shorter \cup { Append(q, x) : q \in {r \in shorter : Len(r) = n - 1}, x \in S }

\* payload.commits is optional; a commit is its id.  The payloads are those
\* GitHubWebhookService hands over: transformPushPayload sets commits (to []
\* when the delivery has none) and no pull_request, transformPullRequestPayload
\* sets pull_request and no commits.
CommitLists == {<<>>, <<"c1">>}
Payloads ==
  { [commits |-> Some(c), pull_request |-> FALSE] : c \in CommitLists }
  \cup { [commits |-> None, pull_request |-> TRUE] }

\* Every shape a GitHubWebhookPayload can have for determineEventType:
\* commits absent, empty or not, with or without a pull_request object
CommitIds == {"c1", "c2"}
AllPayloads ==
  { [commits |-> c, pull_request |-> pr] :
      c \in {None} \cup { Some(l) : l \in SeqsUpTo(CommitIds, MaxCommits) },
      pr \in BOOLEAN }

\* The tracker: the issues of the team that mention the repository, and the
\* users whose display name contains the looked-up name.
RepositoryIssues == <<"T1">>
UsersMatching(displayName) ==
  IF displayName = "alice" THEN <<"U1">>
  ELSE IF displayName = "al" THEN <<"U1", "U2">>
  ELSE <<>>

\* LLMTaskSuggestion (src/src/types/llm.ts): labels is optional
Suggestion(a, c, id, ls, who) ==
  [action |-> a, confidence |-> c, existingTaskId |-> id,
   labels |-> ls, assignee |-> who]

\* action and existingTaskId as the system prompt asks for them: an id comes
\* with an update only, and an update may lack it
Dispatches ==
  { <<"create", Undefined>> } \cup { <<"update", id>> : id \in {Undefined} \cup TaskIds }

\* Suggestions of the orchestrator runs: creates that name a label, below
\* and above the threshold, and confident updates that name an assignee,
\* with or without the id
PipelineSuggestions ==
  { Suggestion("create", c, Undefined, Some(<<"bug">>), Undefined) : c \in {69, 100} }
  \cup { Suggestion("update", 100, id, None, who) :
           id \in {Undefined} \cup TaskIds, who \in UserNames }

\* Suggestions of the mapper runs: a suggestion names labels, an assignee or
\* neither
MapperSuggestions ==
  { Suggestion(d[1], c, d[2], r[1], r[2]) :
      d \in Dispatches, c \in {69, 70},
      r \in { <<None, Undefined>>, <<Some(<<"bug">>), Undefined>> }
             \cup { <<None, who>> : who \in UserNames } }

\* ------------------------------------------------------------------- state
VARIABLES
  pc,               \* position of the run
  payload,          \* GitHubWebhookPayload: [commits, pull_request]
  eventType,        \* processGitHubEvent: const eventType
  existingTasks,    \* processGitHubEvent: let existingTasks
  analysisInput,    \* the LLMAnalysisInput handed to analyzeGitHubChanges
  completion,       \* analyzeGitHubChanges: what the chat completion answered
  analysis,         \* processGitHubEvent: const analysis
  suggestions,      \* processLLMSuggestions: suggestions
  index,            \* processLLMSuggestions: position of the for loop, from 1
  taskInput,        \* processLLMSuggestions: taskInput being built
  existingLabelMap, \* findOrCreateLabels: existingLabelMap, <<lower name, id>>
  labelCursor,      \* findOrCreateLabels: position of the for loop, from 1
  created,          \* processLLMSuggestions: created
  updated,          \* processLLMSuggestions: updated
  errors,           \* processLLMSuggestions: errors
  thrown,           \* the error processGitHubEvent rejected with
  trackerLabels,    \* the team's labels in the tracker, in creation order
  calls,            \* every outbound call so far
  config,           \* AppConfig: [defaultAssigneeId, openaiApiKey]
  sent,             \* the issue inputs sent with createIssue/updateIssue
  build,            \* which copy of GitHubWebhookService is deployed
  delivery,         \* the webhook delivery: [event, action, commits]
  handler,          \* the event handler of setupEventHandlers
  response,         \* the HTTP response of the webhook endpoint
  health,           \* what healthCheck returned
  duplicateErrors,  \* the label names a createIssueLabel call found duplicate
  request,          \* the HTTP request the webhook endpoint is serving
  orchestrator,     \* part_006: let orchestrator is set
  webhookService,   \* part_006: let webhookService is set
  constructions,    \* how many times initializeServices built the services
  served,           \* how many requests the process has received
  current,          \* which of two interleaved runs is executing
  parked,           \* the locals of the run suspended at an await
  logEnv,           \* process.env.LOG_LEVEL
  logArg,           \* the logLevel argument of the Logger constructor
  logger,           \* the Logger: its logLevel once constructed
  logged,           \* the messages handed to the Logger: [level, emitted]
  enrichInput,      \* the suggestion handed to enrichTaskDescription
  clock,            \* new Date()
  enriched          \* the texts enrichTaskDescription returned

vars == <<pc, payload, eventType, existingTasks, analysisInput, completion, analysis,
          suggestions, index, taskInput, existingLabelMap, labelCursor,
          created, updated, errors, thrown, trackerLabels, calls,
          config, sent, build, delivery, handler, response, health,
          duplicateErrors, request, orchestrator, webhookService, constructions,
          served, current, parked, logEnv, logArg, logger, logged,
          enrichInput, clock, enriched>>

\* the state of the logger and of the description helper
utilVars == <<logEnv, logArg, logger, logged, enrichInput, clock, enriched>>

\* the state of the process around the runs, which no step of a run writes
processVars == <<request, orchestrator, webhookService, constructions, served,
                 current, parked, utilVars>>

serviceVars == <<config, build, delivery, handler, response, health>>

orchestratorVars == <<eventType, existingTasks, analysisInput, completion, analysis,
                      thrown>>
mapperVars == <<suggestions, index, taskInput, existingLabelMap, labelCursor,
                created, updated, errors>>

Call(op, idx, arg, ok) == [op |-> op, idx |-> idx, arg |-> arg, ok |-> ok]
NoTaskInput == [assigneeId |-> Undefined, labelIds |-> None]

\* ------------------------------------------------------------ orchestrator
\* the pull_request object looked at before the commits
determineEventType_prFirst(p) ==
  IF p.pull_request THEN "pull_request"
  ELSE IF IsSome(p.commits) /\ Len(Get(p.commits)) > 0 THEN "push"
  ELSE "null"
\* the length of commits not looked at
determineEventType_anyCommits(p) ==
  IF IsSome(p.commits) THEN "push"
  ELSE IF p.pull_request THEN "pull_request"
  ELSE "null"
\* TaskOrchestrator.determineEventType
determineEventType(p) ==
  IF IsSome(p.commits) /\ Len(Get(p.commits)) > 0 THEN "push"
  ELSE IF p.pull_request THEN "pull_request"
  ELSE "null"

\* the catch answering with the issues known for the repository, not with []
getTasksByRepository_stale(ok, nodes) ==
  [threw |-> FALSE, value |-> nodes]
\* LinearService.getTasksByRepository: what the call returns to its caller
\* when the issues query answers (ok) with nodes, or fails
getTasksByRepository(ok, nodes) ==
  IF ok THEN [threw |-> FALSE, value |-> nodes]
  ELSE [threw |-> FALSE, value |-> <<>>]

\* processGitHubEvent, the try/catch around the fetch of existing tasks
fetchExistingTasks(res) ==
  IF res.threw THEN <<>> ELSE res.value

\* The chat completion: the call throws, answers without content, answers
\* with text that is no JSON, or answers with a JSON object whose fields
\* may be missing.
LLMObject(sct, sugg, summ) ==
  [kind |-> "object", shouldCreateTasks |-> sct, suggestions |-> sugg,
   summary |-> summ]
LLMFailure(k) ==
  [kind |-> k, shouldCreateTasks |-> None, suggestions |-> None, summary |-> None]
LLMResponses(lists) ==
  { LLMFailure(k) : k \in {"throws", "absent", "notjson"} }
  \cup { LLMObject(sct, sugg, summ) :
           sct \in {None, Some(TRUE), Some(FALSE)},
           sugg \in {None} \cup { Some(l) : l \in lists },
           summ \in {None, Some("summary")} }

\* a missing shouldCreateTasks defaulting to true
defaultShouldCreateTasks_true(o) ==
  IF IsSome(o.shouldCreateTasks) THEN Get(o.shouldCreateTasks) ELSE TRUE
\* analyzeGitHubChanges, the defaults for the fields of the parsed object
defaultSuggestions(o) == IF IsSome(o.suggestions) THEN Get(o.suggestions) ELSE <<>>
defaultShouldCreateTasks(o) ==
  IF IsSome(o.shouldCreateTasks) THEN Get(o.shouldCreateTasks) ELSE FALSE
defaultSummary(o) == IF IsSome(o.summary) THEN Get(o.summary) ELSE "Analysis completed"

NoResult == [summary |-> "", suggestions |-> <<>>, shouldCreateTasks |-> FALSE]

\* a parse failure answered with the defaults instead of an error
analyzeGitHubChanges_lenient(r) ==
  IF r.kind = "throws"
    THEN [threw |-> TRUE, error |-> "LLM analysis failed: request failed", value |-> NoResult]
  ELSE IF r.kind = "absent"
    THEN [threw |-> TRUE, error |-> "LLM analysis failed: No response from LLM", value |-> NoResult]
  ELSE [threw |-> FALSE, error |-> "",
        value |-> [summary |-> defaultSummary(r),
                   suggestions |-> defaultSuggestions(r),
                   shouldCreateTasks |-> defaultShouldCreateTasks(r)]]
\* LLMService.analyzeGitHubChanges from the completion on: the result or the
\* error it throws (every inner error is rethrown as 'LLM analysis failed')
analyzeGitHubChanges(r) ==
  IF r.kind = "throws"
    THEN [threw |-> TRUE, error |-> "LLM analysis failed: request failed", value |-> NoResult]
  ELSE IF r.kind = "absent"
    THEN [threw |-> TRUE, error |-> "LLM analysis failed: No response from LLM", value |-> NoResult]
  ELSE IF r.kind = "notjson"
    THEN [threw |-> TRUE, error |-> "LLM analysis failed: Failed to parse LLM JSON response", value |-> NoResult]
  ELSE [threw |-> FALSE, error |-> "",
        value |-> [summary |-> defaultSummary(r),
                   suggestions |-> defaultSuggestions(r),
                   shouldCreateTasks |-> defaultShouldCreateTasks(r)]]

\* the gate without the test of shouldCreateTasks
gate_ignoresFlag(a) ==
  IF Len(a.suggestions) = 0 THEN "no_suggestions" ELSE "process"
\* the gate without the test of the length of suggestions
gate_ignoresEmpty(a) ==
  IF ~a.shouldCreateTasks THEN "no_tasks_needed" ELSE "process"
\* processGitHubEvent, the two early returns after the analysis
gate(a) ==
  IF ~a.shouldCreateTasks THEN "no_tasks_needed"
  ELSE IF Len(a.suggestions) = 0 THEN "no_suggestions"
  ELSE "process"

\* processGitHubEvent up to the first await: the event type decides
DetermineEvent ==
  /\ pc = "start"
  /\ eventType' = determineEventType(payload)
  /\ pc' = IF eventType' = "null" THEN "resolved" ELSE "fetch"
  /\ UNCHANGED <<payload, existingTasks, analysisInput, completion, analysis,
                 thrown, mapperVars, trackerLabels, calls>>
  /\ UNCHANGED <<serviceVars, sent, duplicateErrors, processVars>>

\* await this.linearService.getTasksByRepository(full_name)
FetchExistingTasks ==
  /\ pc = "fetch"
  /\ \E ok \in BOOLEAN :
       /\ calls' = Append(calls, Call("issues", 0, "", ok))
       /\ existingTasks' = fetchExistingTasks(getTasksByRepository(ok, RepositoryIssues))
  /\ pc' = "llm"
  /\ UNCHANGED <<payload, eventType, analysisInput, completion, analysis,
                 thrown, mapperVars, trackerLabels>>
  /\ UNCHANGED <<serviceVars, sent, duplicateErrors, processVars>>

\* await this.llmService.analyzeGitHubChanges(analysisInput)
AnalyzeChanges(lists) ==
  /\ pc = "llm"
  /\ \E r \in LLMResponses(lists) :
       LET res == analyzeGitHubChanges(r) IN
       /\ calls' = Append(calls, Call("chat", 0, "", r.kind # "throws"))
       /\ analysisInput' =
            Some([eventType |-> eventType, existingTasks |-> existingTasks])
       /\ completion' = Some(r)
       /\ IF res.threw
            THEN /\ pc' = "rejected"
                 /\ thrown' = res.error
                 /\ UNCHANGED analysis
            ELSE /\ pc' = "gate"
                 /\ analysis' = Some(res.value)
                 /\ UNCHANGED thrown
  /\ UNCHANGED <<payload, eventType, existingTasks, mapperVars, trackerLabels>>
  /\ UNCHANGED <<serviceVars, sent, duplicateErrors, processVars>>

\* if (!analysis.shouldCreateTasks) return; if (suggestions.length === 0) return;
\* then processLLMSuggestions is entered
Gate ==
  /\ pc = "gate"
  /\ IF gate(Get(analysis)) = "process"
       THEN /\ pc' = "map"
            /\ suggestions' = Get(analysis).suggestions
            /\ index' = 1
       ELSE /\ pc' = "resolved"
            /\ UNCHANGED <<suggestions, index>>
  /\ UNCHANGED <<payload, orchestratorVars, taskInput, existingLabelMap,
                 labelCursor, created, updated, errors, trackerLabels, calls>>
  /\ UNCHANGED <<serviceVars, sent, duplicateErrors, processVars>>

\* processLLMSuggestions returned: the results are logged and the run resolves
LogAnalysis ==
  /\ pc = "mapped"
  /\ IsSome(analysis)
  /\ pc' = "resolved"
  /\ UNCHANGED <<payload, orchestratorVars, mapperVars, trackerLabels, calls>>
  /\ UNCHANGED <<serviceVars, sent, duplicateErrors, processVars>>

\* ------------------------------------------------------------------ mapper
\* the gate with a threshold of 0.5
belowThreshold_half(s) == s.confidence < 50
\* the gate with <= for <
belowThreshold_inclusive(s) == s.confidence <= ConfidenceThreshold
\* processLLMSuggestions: if (suggestion.confidence < 0.7) continue
belowThreshold(s) == s.confidence < ConfidenceThreshold

\* the loop body without its catch: the error leaves processLLMSuggestions
catchSuggestion_rethrow(errs, idx, s) ==
  [rethrow |-> TRUE, errors |-> errs]
\* the error put in front of errors instead of pushed
catchSuggestion_unshift(errs, idx, s) ==
  [rethrow |-> FALSE, errors |-> <<[idx |-> idx, action |-> s.action]>> \o errs]
\* processLLMSuggestions: the catch of the loop body records the error and
\* goes on with the next suggestion
catchSuggestion(errs, idx, s) ==
  [rethrow |-> FALSE, errors |-> Append(errs, [idx |-> idx, action |-> s.action])]

\* processLLMSuggestions: which branch dispatches the suggestion
dispatchOf(s) ==
  IF s.action = "create" THEN "create"
  ELSE IF s.action = "update" /\ s.existingTaskId # Undefined THEN "update"
  ELSE "none"

\* A JavaScript Map as the sequence of its <<key, value>> entries
MapHas(m, k) == \E i \in DOMAIN m : m[i][1] = k
MapGet(m, k) == m[CHOOSE i \in DOMAIN m : m[i][1] = k][2]
MapSet(m, k, v) ==
  IF MapHas(m, k)
    THEN [i \in DOMAIN m |-> IF m[i][1] = k THEN <<k, v>> ELSE m[i]]
    ELSE Append(m, <<k, v>>)

\* the map keyed by the names as the tracker spells them
RECURSIVE buildLabelMap_caseSensitive(_, _)
buildLabelMap_caseSensitive(nodes, m) ==
  IF nodes = <<>> THEN m
  ELSE buildLabelMap_caseSensitive(Tail(nodes),
                                   MapSet(m, Head(nodes).name, Head(nodes).id))
\* findOrCreateLabels: existingLabelMap.set(label.name.toLowerCase(), label.id)
\* for every label the tracker lists
RECURSIVE buildLabelMap(_, _)
buildLabelMap(nodes, m) ==
  IF nodes = <<>> THEN m
  ELSE buildLabelMap(Tail(nodes),
                     MapSet(m, toLowerCase(Head(nodes).name), Head(nodes).id))

\* findOrCreateLabels: the loop over labelNames up to the next label that has
\* to be created (the next await) or to the end of the list
RECURSIVE resolveExisting(_, _, _, _)
resolveExisting(labelNames, j, ids, m) ==
  IF j > Len(labelNames) THEN [cursor |-> j, labelIds |-> ids]
  ELSE IF MapHas(m, toLowerCase(labelNames[j]))
    THEN resolveExisting(labelNames, j + 1,
                         Append(ids, MapGet(m, toLowerCase(labelNames[j]))), m)
  ELSE [cursor |-> j, labelIds |-> ids]

\* after a duplicate error, the first entry of the map whatever its name
duplicateFallback_first(m, labelName) ==
  IF m = <<>> THEN None ELSE Some(m[1][2])
\* findOrCreateLabels: after a duplicate error, the first entry of the map
\* whose name includes the requested name
duplicateFallback(m, labelName) ==
  LET hits == { i \in DOMAIN m : includes(toLowerCase(m[i][1]), toLowerCase(labelName)) }
  IN IF hits = {} THEN None
     ELSE Some(m[CHOOSE i \in hits : \A k \in hits : i <= k][2])

\* What a createIssueLabel call can do: create the label, answer without
\* success, fail with a duplicate error, fail with another error
LabelOutcomes == {"created", "unsuccessful", "duplicate", "error"}

\* What createIssue/updateIssue and the retrieval of the issue can do: the
\* call throws or answers without success, the issue is written but cannot
\* be retrieved or mapped, or all of it succeeds
IssueOutcomes == {"ok", "failed", "unmapped"}

\* LinearService.createTask / updateTask: whether the tracker wrote the issue
\* and whether the method throws
createTask(out) == [written |-> out # "failed", threw |-> out # "ok"]
updateTask(out) == [written |-> out # "failed", threw |-> out # "ok"]

\* a failed write attempted a second time
issueCalls_retry(op, idx, arg, out) ==
  IF out = "failed" THEN <<Call(op, idx, arg, FALSE), Call(op, idx, arg, FALSE)>>
  ELSE <<Call(op, idx, arg, TRUE), Call("issue", idx, arg, out = "ok")>>
\* the calls createTask/updateTask make for suggestion idx
issueCalls(op, idx, arg, out) ==
  IF out = "failed" THEN <<Call(op, idx, arg, FALSE)>>
  ELSE <<Call(op, idx, arg, TRUE), Call("issue", idx, arg, out = "ok")>>

afterUser(s) == IF IsSome(s.labels) THEN "listLabels" ELSE "dispatch"
afterGate(s) == IF s.assignee # Undefined THEN "findUser" ELSE afterUser(s)

\* the head of the for loop: the loop ends, the suggestion is skipped, or
\* taskInput starts to be built
NextSuggestion ==
  /\ pc = "map"
  /\ IF index > Len(suggestions)
       THEN /\ pc' = "mapped"
            /\ UNCHANGED <<index, taskInput>>
       ELSE IF belowThreshold(suggestions[index])
         THEN /\ pc' = "map"
              /\ index' = index + 1
              /\ UNCHANGED taskInput
         ELSE /\ pc' = afterGate(suggestions[index])
              /\ taskInput' = NoTaskInput
              /\ UNCHANGED index
  /\ UNCHANGED <<payload, orchestratorVars, suggestions, existingLabelMap,
                 labelCursor, created, updated, errors, trackerLabels, calls>>
  /\ UNCHANGED <<serviceVars, sent, duplicateErrors, processVars>>

\* the last of the users found
findUserByName_last(ok, users) ==
  IF ok /\ users # <<>> THEN users[Len(users)] ELSE Undefined
\* LinearService.findUserByName: users.nodes?.[0]?.id, undefined when the
\* lookup fails
findUserByName(ok, users) ==
  IF ok /\ users # <<>> THEN users[1] ELSE Undefined

\* await this.findUserByName(suggestion.task.assignee)
FindUserByName ==
  /\ pc = "findUser"
  /\ \E ok \in BOOLEAN :
       LET users == UsersMatching(suggestions[index].assignee) IN
       /\ calls' = Append(calls, Call("users", index, suggestions[index].assignee, ok))
       /\ taskInput' = [taskInput EXCEPT !.assigneeId = findUserByName(ok, users)]
  /\ pc' = afterUser(suggestions[index])
  /\ UNCHANGED <<payload, orchestratorVars, suggestions, index, existingLabelMap,
                 labelCursor, created, updated, errors, trackerLabels>>
  /\ UNCHANGED <<serviceVars, sent, duplicateErrors, processVars>>

\* findOrCreateLabels: await this.client.issueLabels(...), then the loop up
\* to the first label to create
ListLabels ==
  /\ pc = "listLabels"
  /\ \E ok \in BOOLEAN :
       /\ calls' = Append(calls, Call("issueLabels", index, "", ok))
       /\ IF ok
            THEN LET m == buildLabelMap(trackerLabels, <<>>)
                     r == resolveExisting(Get(suggestions[index].labels), 1, <<>>, m)
                 IN /\ existingLabelMap' = m
                    /\ labelCursor' = r.cursor
                    /\ taskInput' = [taskInput EXCEPT !.labelIds = Some(r.labelIds)]
                    /\ pc' = IF r.cursor > Len(Get(suggestions[index].labels))
                               THEN "dispatch" ELSE "createLabel"
            ELSE /\ taskInput' = [taskInput EXCEPT !.labelIds = Some(<<>>)]
                 /\ pc' = "dispatch"
                 /\ UNCHANGED <<existingLabelMap, labelCursor>>
  /\ UNCHANGED <<payload, orchestratorVars, suggestions, index,
                 created, updated, errors, trackerLabels>>
  /\ UNCHANGED <<serviceVars, sent, duplicateErrors, processVars>>

\* findOrCreateLabels: await this.client.createIssueLabel(...), then the loop
\* up to the next label to create
CreateLabel ==
  /\ pc = "createLabel"
  /\ \E out \in LabelOutcomes :
       LET labelNames == Get(suggestions[index].labels)
           labelName == labelNames[labelCursor]
           newId == Len(trackerLabels) + 1
           fallback == duplicateFallback(existingLabelMap, labelName)
           ids == Get(taskInput.labelIds)
           ids1 == IF out = "created" THEN Append(ids, newId)
                   ELSE IF out = "duplicate" /\ IsSome(fallback)
                     THEN Append(ids, Get(fallback))
                   ELSE ids
           r == resolveExisting(labelNames, labelCursor + 1, ids1, existingLabelMap)
       IN /\ calls' = Append(calls, Call("createIssueLabel", index, labelName,
                                          out = "created"))
          /\ trackerLabels' = IF out = "created"
                                THEN Append(trackerLabels, [id |-> newId, name |-> labelName])
                                ELSE trackerLabels
          /\ duplicateErrors' = IF out = "duplicate"
                                  THEN duplicateErrors \cup {labelName}
                                  ELSE duplicateErrors
          /\ labelCursor' = r.cursor
          /\ taskInput' = [taskInput EXCEPT !.labelIds = Some(r.labelIds)]
          /\ pc' = IF r.cursor > Len(labelNames) THEN "dispatch" ELSE "createLabel"
  /\ UNCHANGED <<payload, orchestratorVars, suggestions, index, existingLabelMap,
                 created, updated, errors>>
  /\ UNCHANGED <<serviceVars, sent, processVars>>

\* the keys of an object that have a defined value; taskInput always has a
\* title, a description, a teamId and a priority and never a projectId
DefinedKeys(fields) == { k \in DOMAIN fields : fields[k] }

\* createTask: the input sent with createIssue.  input.assigneeId ||
\* this.config.defaultAssigneeId, and input.labelIds || defaultLabelIds || []
\* (no default label ids are configured)
createPayload(idx, input, cfg) ==
  LET assigneeId == IF input.assigneeId # Undefined THEN input.assigneeId
                    ELSE cfg.defaultAssigneeId
  IN [op |-> "createIssue", idx |-> idx,
      assigneeId |-> assigneeId,
      labelIds |-> IF IsSome(input.labelIds) THEN input.labelIds ELSE Some(<<>>),
      keys |-> DefinedKeys([title |-> TRUE, description |-> TRUE,
                            teamId |-> TRUE, priority |-> TRUE,
                            assigneeId |-> assigneeId # Undefined,
                            labelIds |-> TRUE, projectId |-> FALSE])]

\* an update that also passes the team on
updatePayload_teamId(idx, input) ==
  [op |-> "updateIssue", idx |-> idx,
   assigneeId |-> input.assigneeId, labelIds |-> input.labelIds,
   keys |-> DefinedKeys([title |-> TRUE, description |-> TRUE,
                         teamId |-> TRUE, priority |-> TRUE,
                         assigneeId |-> input.assigneeId # Undefined,
                         labelIds |-> IsSome(input.labelIds),
                         projectId |-> FALSE])]
\* updateTask: the input sent with updateIssue, the undefined keys removed
updatePayload(idx, input) ==
  [op |-> "updateIssue", idx |-> idx,
   assigneeId |-> input.assigneeId, labelIds |-> input.labelIds,
   keys |-> DefinedKeys([title |-> TRUE, description |-> TRUE,
                         priority |-> TRUE,
                         assigneeId |-> input.assigneeId # Undefined,
                         labelIds |-> IsSome(input.labelIds),
                         projectId |-> FALSE])]

\* the dispatch of the suggestion: await this.createTask(taskInput), await
\* this.updateTask(existingTaskId, taskInput), or neither
Dispatch ==
  /\ pc = "dispatch"
  /\ LET s == suggestions[index]
         how == dispatchOf(s)
     IN \E out \in IssueOutcomes :
          LET res == IF how = "create" THEN createTask(out) ELSE updateTask(out)
              caught == catchSuggestion(errors, index, s)
          IN IF how = "none"
               THEN /\ out = "ok"
                    /\ pc' = "map"
                    /\ index' = index + 1
                    /\ UNCHANGED <<created, updated, errors, thrown, calls, sent>>
               ELSE /\ calls' = calls \o
                         (IF how = "create"
                            THEN issueCalls("createIssue", index, "", out)
                            ELSE issueCalls("updateIssue", index, s.existingTaskId, out))
                    /\ sent' = Append(sent,
                                      IF how = "create"
                                        THEN createPayload(index, taskInput, config)
                                        ELSE updatePayload(index, taskInput))
                    /\ IF ~res.threw
                         THEN /\ created' = IF how = "create"
                                   THEN Append(created, [idx |-> index, id |-> "new"])
                                   ELSE created
                              /\ updated' = IF how = "update"
                                   THEN Append(updated, [idx |-> index, id |-> s.existingTaskId])
                                   ELSE updated
                              /\ pc' = "map"
                              /\ index' = index + 1
                              /\ UNCHANGED <<errors, thrown>>
                         ELSE IF caught.rethrow
                           THEN /\ pc' = "rejected"
                                /\ thrown' = "Failed to process suggestion"
                                /\ UNCHANGED <<created, updated, errors, index>>
                           ELSE /\ errors' = caught.errors
                                /\ pc' = "map"
                                /\ index' = index + 1
                                /\ UNCHANGED <<created, updated, thrown>>
  /\ UNCHANGED <<payload, eventType, existingTasks, analysisInput, completion,
                 analysis, suggestions, taskInput, existingLabelMap, labelCursor,
                 trackerLabels>>
  /\ UNCHANGED <<serviceVars, duplicateErrors, processVars>>

\* ---------------------------------------------------------- webhook service
\* shouldProcessPRAction: const processedActions
processedActions == {"opened", "closed", "reopened", "synchronize", "ready_for_review"}

\* a pull_request action missing from the processed ones
shouldProcessPRAction_narrow(action) ==
  action \in processedActions \ {"ready_for_review"}
\* GitHubWebhookService.shouldProcessPRAction
shouldProcessPRAction(action) == action \in processedActions

\* The deliveries GitHub sends: a push with or without commits, a
\* pull_request with its action, or another kind of event
PRActions == processedActions \cup {"edited", "labeled"}
Delivery(e, a, c) == [event |-> e, action |-> a, commits |-> c]
NoDelivery == Delivery("none", Undefined, None)
Deliveries ==
  { Delivery("push", Undefined, c) : c \in {None, Some(<<>>), Some(<<"c1">>)} }
  \cup { Delivery("pull_request", a, None) : a \in PRActions }
  \cup { Delivery("issues", "opened", None) }

\* transformPushPayload: commits: payload.commits?.map(...) || []
transformPushPayload(d) ==
  [commits |-> IF IsSome(d.commits) THEN d.commits ELSE Some(<<>>),
   pull_request |-> FALSE]
\* transformPullRequestPayload: pull_request is set, commits is not
transformPullRequestPayload(d) == [commits |-> None, pull_request |-> TRUE]
NoPayload == [commits |-> None, pull_request |-> FALSE]

\* The two copies of GitHubWebhookService in the repository: the handlers of
\* part_003 wrap the callback in a try/catch that logs the error, those of
\* src/services/github.ts await the callback bare
Builds == {"github.ts", "part_003"}
handlerCatches(b) == b = "part_003"

\* which callback the handler registered for the event invokes, if any
\* (initializeServices registers both callbacks)
callbackOf(d) ==
  IF d.event = "push" THEN "onPush"
  ELSE IF d.event = "pull_request" /\ shouldProcessPRAction(d.action) THEN "onPullRequest"
  ELSE "none"

\* webhooks.on('push' | 'pull_request'): the handler runs up to the await of
\* its callback, which enters processGitHubEvent, or returns at once
Deliver ==
  /\ handler = "idle"
  /\ pc = "idle"
  /\ \E d \in Deliveries :
       /\ delivery' = d
       /\ IF callbackOf(d) = "onPush"
            THEN /\ payload' = transformPushPayload(d)
                 /\ pc' = "start"
                 /\ handler' = "awaiting"
          ELSE IF callbackOf(d) = "onPullRequest"
            THEN /\ payload' = transformPullRequestPayload(d)
                 /\ pc' = "start"
                 /\ handler' = "awaiting"
          ELSE /\ handler' = "resolved"
               /\ UNCHANGED <<pc, payload>>
  /\ UNCHANGED <<orchestratorVars, mapperVars, trackerLabels, calls, config, sent,
                 build, response, health,
                 duplicateErrors, processVars>>

\* the callback called without await: the handler resolves at once
HandlerReturn_early ==
  /\ handler = "awaiting"
  /\ handler' = "resolved"
  /\ UNCHANGED <<pc, payload, orchestratorVars, mapperVars, trackerLabels, calls,
                 config, sent, build, delivery, response, health,
                 duplicateErrors, processVars>>
\* the callback settled: the handler resolves, or rejects with the error of
\* processGitHubEvent where no catch stands around the await
HandlerReturn ==
  /\ handler = "awaiting"
  /\ pc \in {"resolved", "rejected"}
  /\ handler' = IF pc = "rejected" /\ ~handlerCatches(build) THEN "rejected"
                ELSE "resolved"
  /\ UNCHANGED <<pc, payload, orchestratorVars, mapperVars, trackerLabels, calls,
                 config, sent, build, delivery, response, health,
                 duplicateErrors, processVars>>

\* the webhook endpoint answers: the error payload when the handling of the
\* delivery rejected, { success: true } otherwise
Respond ==
  /\ handler \in {"resolved", "rejected"}
  /\ response = "none"
  /\ response' = IF handler = "rejected" THEN "error" ELSE "success"
  /\ UNCHANGED <<pc, payload, orchestratorVars, mapperVars, trackerLabels, calls,
                 config, sent, build, delivery, handler, health,
                 duplicateErrors, processVars>>

\* --------------------------------------------------------- HTTP endpoint
\* What the webhook endpoint looks at before it hands the request over: the
\* method and whether the two GitHub headers are there
NoRequest == [method |-> "none", event |-> FALSE, signature |-> FALSE]
Requests ==
  { [method |-> m, event |-> e, signature |-> g] :
      m \in {"POST", "GET"}, e \in BOOLEAN, g \in BOOLEAN }

\* the handler without the test of the signature header
earlyStatus_noSignatureTest(req) ==
  IF req.method # "POST" THEN "405"
  ELSE IF ~req.event THEN "400"
  ELSE "none"
\* handler: the three early returns, or none of them
earlyStatus(req) ==
  IF req.method # "POST" THEN "405"
  ELSE IF ~req.event THEN "400"
  ELSE IF ~req.signature THEN "401"
  ELSE "none"

\* the services built again on every request
initializeServices_rebuild(o, w, configOk) ==
  IF ~configOk
    THEN [orchestrator |-> o, webhookService |-> w, built |-> FALSE, threw |-> TRUE]
  ELSE [orchestrator |-> TRUE, webhookService |-> TRUE, built |-> TRUE, threw |-> FALSE]
\* initializeServices: nothing to do when orchestrator is set; otherwise
\* loadConfig and validateConfig, which may throw, then both assignments
initializeServices(o, w, configOk) ==
  IF o
    THEN [orchestrator |-> o, webhookService |-> w, built |-> FALSE, threw |-> FALSE]
  ELSE IF ~configOk
    THEN [orchestrator |-> o, webhookService |-> w, built |-> FALSE, threw |-> TRUE]
  ELSE [orchestrator |-> TRUE, webhookService |-> TRUE, built |-> TRUE, threw |-> FALSE]

\* handler, up to the try block: a request arrives once the one before it
\* is answered; the locals of the run before it are gone
Receive ==
  /\ served < MaxRequests
  /\ request = NoRequest \/ response # "none"
  /\ \E r \in Requests :
       /\ request' = r
       /\ response' = earlyStatus(r)
       /\ handler' = IF earlyStatus(r) = "none" THEN "init" ELSE "none"
  /\ served' = served + 1
  /\ delivery' = NoDelivery
  /\ pc' = "idle"
  /\ payload' = NoPayload
  /\ eventType' = "null"
  /\ existingTasks' = <<>>
  /\ analysisInput' = None
  /\ completion' = None
  /\ analysis' = None
  /\ suggestions' = <<>>
  /\ index' = 1
  /\ taskInput' = NoTaskInput
  /\ existingLabelMap' = <<>>
  /\ labelCursor' = 1
  /\ created' = <<>>
  /\ updated' = <<>>
  /\ errors' = <<>>
  /\ thrown' = "none"
  /\ calls' = <<>>
  /\ sent' = <<>>
  /\ duplicateErrors' = {}
  /\ UNCHANGED <<trackerLabels, config, build, health, orchestrator, webhookService,
                 constructions, current, parked, utilVars>>

\* handler: initializeServices() inside the try; an error it throws is
\* answered with 500 by the catch
InitializeServices ==
  /\ handler = "init"
  /\ \E configOk \in BOOLEAN :
       LET r == initializeServices(orchestrator, webhookService, configOk) IN
       /\ orchestrator' = r.orchestrator
       /\ webhookService' = r.webhookService
       /\ constructions' = IF r.built THEN constructions + 1 ELSE constructions
       /\ IF r.threw
            THEN /\ response' = "500"
                 /\ handler' = "none"
            ELSE /\ handler' = "idle"
                 /\ UNCHANGED response
  /\ UNCHANGED <<pc, payload, orchestratorVars, mapperVars, trackerLabels, calls,
                 config, sent, build, delivery, health, duplicateErrors, request,
                 served, current, parked, utilVars>>

\* --------------------------------------------------------------- health
NoHealth == [status |-> "none", services |-> [llm |-> "unknown", linear |-> "unknown"]]

\* TaskOrchestrator.healthCheck, from the result of the probe on
healthCheck(probe, cfg) ==
  LET linear == IF probe.threw THEN "error" ELSE "healthy"
      llm == IF cfg.openaiApiKey THEN "healthy" ELSE "not_configured"
  IN [status |-> IF linear = "error" \/ llm = "not_configured" THEN "degraded"
                 ELSE "healthy",
      services |-> [llm |-> llm, linear |-> linear]]

\* one call of healthCheck on the orchestrator the health endpoint keeps:
\* await this.linearService.getTasksByRepository('test', 1)
HealthCheck ==
  /\ pc = "idle"
  /\ handler = "none"
  /\ Len(calls) < MaxHealthChecks
  /\ \E ok \in BOOLEAN :
       /\ calls' = Append(calls, Call("issues", 0, "test", ok))
       /\ health' = healthCheck(getTasksByRepository(ok, <<>>), config)
  /\ UNCHANGED <<pc, payload, orchestratorVars, mapperVars, trackerLabels,
                 config, sent, build, delivery, handler, response,
                 duplicateErrors, processVars>>

\* --------------------------------------------------------------- logger
\* a || b on optional numbers: a when it is defined and not 0
OrElse(a, b) == IF a = None \/ a = Some(0) THEN b ELSE a

\* process.env.LOG_LEVEL: unset, a level in either case, or another word
LogEnvs == {Undefined, "debug", "DEBUG", "info", "warn", "error", "verbose"}
LogLevels == {DEBUG, INFO, WARN, ERROR}

\* Logger.parseLogLevel
parseLogLevel(level) ==
  IF level = Undefined THEN None
  ELSE CASE toLowerCase(level) = "debug" -> Some(DEBUG)
         [] toLowerCase(level) = "info" -> Some(INFO)
         [] toLowerCase(level) = "warn" -> Some(WARN)
         [] toLowerCase(level) = "error" -> Some(ERROR)
         [] OTHER -> Some(INFO)

\* Logger.constructor: logLevel || this.parseLogLevel(LOG_LEVEL) || INFO
newLogger(logLevel, env) ==
  Get(OrElse(OrElse(logLevel, parseLogLevel(env)), Some(INFO)))

\* Logger.shouldLog
shouldLog(level, logLevel) == level >= logLevel

\* new Logger(serviceName, logLevel)
Construct ==
  /\ logger = None
  /\ logger' = Some(newLogger(logArg, logEnv))
  /\ UNCHANGED <<pc, payload, orchestratorVars, mapperVars, trackerLabels, calls,
                 serviceVars, sent, duplicateErrors, request, orchestrator,
                 webhookService, constructions, served, current, parked,
                 logEnv, logArg, logged, enrichInput, clock, enriched>>

\* logger.debug / info / warn / error: the message is written or not
Log ==
  /\ logger # None
  /\ Len(logged) < MaxMessages
  /\ \E level \in LogLevels :
       logged' = Append(logged, [level |-> level,
                                 emitted |-> shouldLog(level, Get(logger))])
  /\ UNCHANGED <<pc, payload, orchestratorVars, mapperVars, trackerLabels, calls,
                 serviceVars, sent, duplicateErrors, request, orchestrator,
                 webhookService, constructions, served, current, parked,
                 logEnv, logArg, logger, enrichInput, clock, enriched>>

\* --------------------------------------------------- enrichTaskDescription
\* A text is the sequence of its pieces, each a literal or a number put into
\* the text.  The inputs: a description, the reasoning, the confidence in
\* thousandths, the optional estimate
T(s) == [s |-> s, n |-> 0]
N(n) == [s |-> "#", n |-> n]
EnrichInputs ==
  { [description |-> d, reasoning |-> r, confidence |-> c, estimateHours |-> e] :
      d \in { <<>>, <<T("Fix X")>>, <<T("Fix X"), T("---")>> },
      r \in { "r1", "r2" },
      c \in { 694, 695, 700 },
      e \in { None, Some(0), Some(2) } }
NoEnrichInput ==
  [description |-> <<>>, reasoning |-> "", confidence |-> 0, estimateHours |-> None]

\* Math.round(confidence * 100) on a confidence in thousandths
roundPercent(c) == (c + 5) \div 10

\* the trailer appended to what the suggestion holds after the call, which
\* then holds the enriched text
enrichTaskDescription_inPlace(suggestion, repositoryName, now) ==
  LET text == suggestion.description
                \o << T("---"), T("Auto-generated from repository:"),
                      T(repositoryName),
                      T("AI Reasoning:"), T(suggestion.reasoning),
                      T("Confidence:"), N(roundPercent(suggestion.confidence)) >>
                \o (IF suggestion.estimateHours \notin {None, Some(0)}
                      THEN << T("Estimated Hours:"), N(Get(suggestion.estimateHours)) >>
                      ELSE <<>>)
                \o << T("Generated:"), N(now) >>
  IN [text |-> text, suggestion |-> [suggestion EXCEPT !.description = text]]
\* LinearService.enrichTaskDescription: the text returned and the suggestion
\* after the call (description is a local copy of the string)
enrichTaskDescription(suggestion, repositoryName, now) ==
  LET text == suggestion.description
                \o << T("---"), T("Auto-generated from repository:"),
                      T(repositoryName),
                      T("AI Reasoning:"), T(suggestion.reasoning),
                      T("Confidence:"), N(roundPercent(suggestion.confidence)) >>
                \o (IF suggestion.estimateHours \notin {None, Some(0)}
                      THEN << T("Estimated Hours:"), N(Get(suggestion.estimateHours)) >>
                      ELSE <<>>)
                \o << T("Generated:"), N(now) >>
  IN [text |-> text, suggestion |-> suggestion]

\* one call of enrichTaskDescription; the clock has moved on or not
Enrich ==
  /\ enrichInput # NoEnrichInput
  /\ Len(enriched) < MaxEnrichments
  /\ \E now \in {clock, clock + 1} :
       LET r == enrichTaskDescription(enrichInput, "o/r", now) IN
       /\ clock' = now
       /\ enriched' = Append(enriched, r.text)
       /\ enrichInput' = r.suggestion
  /\ UNCHANGED <<pc, payload, orchestratorVars, mapperVars, trackerLabels, calls,
                 serviceVars, sent, duplicateErrors, request, orchestrator,
                 webhookService, constructions, served, current, parked,
                 logEnv, logArg, logger, logged>>

NoUtil ==
  /\ logEnv = Undefined
  /\ logArg = None
  /\ logger = None
  /\ logged = <<>>
  /\ enrichInput = NoEnrichInput
  /\ clock = 0
  /\ enriched = <<>>

\* ------------------------------------------------------- interleaved runs
\* Two calls of processGitHubEvent on the one orchestrator.  Each call has
\* its own locals; at an await the running call is suspended and the other
\* one goes on.  The tracker and the configuration are the same for both.
Running ==
  [pc |-> pc, payload |-> payload, eventType |-> eventType,
   existingTasks |-> existingTasks, analysisInput |-> analysisInput,
   completion |-> completion, analysis |-> analysis,
   suggestions |-> suggestions, index |-> index, taskInput |-> taskInput,
   existingLabelMap |-> existingLabelMap, labelCursor |-> labelCursor,
   created |-> created, updated |-> updated, errors |-> errors,
   thrown |-> thrown, calls |-> calls, sent |-> sent,
   duplicateErrors |-> duplicateErrors]

\* a call of processGitHubEvent that has not taken a step
Started(p) ==
  [pc |-> "start", payload |-> p, eventType |-> "null",
   existingTasks |-> <<>>, analysisInput |-> None,
   completion |-> None, analysis |-> None,
   suggestions |-> <<>>, index |-> 1, taskInput |-> NoTaskInput,
   existingLabelMap |-> <<>>, labelCursor |-> 1,
   created |-> <<>>, updated |-> <<>>, errors |-> <<>>,
   thrown |-> "none", calls |-> <<>>, sent |-> <<>>,
   duplicateErrors |-> {}]

Finished(r) == r.pc \in {"resolved", "rejected"}

\* the three result lists kept in one place for both calls
Switch_sharedResults ==
  /\ IsSome(parked)
  /\ ~Finished(Get(parked))
  /\ parked' = Some(Running)
  /\ current' = 3 - current
  /\ LET r == Get(parked)
     IN /\ pc' = r.pc
        /\ payload' = r.payload
        /\ eventType' = r.eventType
        /\ existingTasks' = r.existingTasks
        /\ analysisInput' = r.analysisInput
        /\ completion' = r.completion
        /\ analysis' = r.analysis
        /\ suggestions' = r.suggestions
        /\ index' = r.index
        /\ taskInput' = r.taskInput
        /\ existingLabelMap' = r.existingLabelMap
        /\ labelCursor' = r.labelCursor
        /\ thrown' = r.thrown
        /\ calls' = r.calls
        /\ sent' = r.sent
        /\ duplicateErrors' = r.duplicateErrors
  /\ UNCHANGED <<created, updated, errors>>
  /\ UNCHANGED <<trackerLabels, serviceVars, request, orchestrator,
                 webhookService, constructions, served, utilVars>>
\* the running call is suspended at its await and the other call resumes
\* with its own locals
Switch ==
  /\ IsSome(parked)
  /\ ~Finished(Get(parked))
  /\ parked' = Some(Running)
  /\ current' = 3 - current
  /\ LET r == Get(parked)
     IN /\ pc' = r.pc
        /\ payload' = r.payload
        /\ eventType' = r.eventType
        /\ existingTasks' = r.existingTasks
        /\ analysisInput' = r.analysisInput
        /\ completion' = r.completion
        /\ analysis' = r.analysis
        /\ suggestions' = r.suggestions
        /\ index' = r.index
        /\ taskInput' = r.taskInput
        /\ existingLabelMap' = r.existingLabelMap
        /\ labelCursor' = r.labelCursor
        /\ created' = r.created
        /\ updated' = r.updated
        /\ errors' = r.errors
        /\ thrown' = r.thrown
        /\ calls' = r.calls
        /\ sent' = r.sent
        /\ duplicateErrors' = r.duplicateErrors
  /\ UNCHANGED <<trackerLabels, serviceVars, request, orchestrator,
                 webhookService, constructions, served, utilVars>>

\* ----------------------------------------------------------- specifications
\* no HTTP request around the run and no second run
NoServer ==
  /\ request = NoRequest
  /\ orchestrator = FALSE
  /\ webhookService = FALSE
  /\ constructions = 0
  /\ served = 0
  /\ current = 1
  /\ parked = None
NoProcess == NoServer /\ NoUtil

\* no run has started
NoRun ==
  /\ eventType = "null"
  /\ existingTasks = <<>>
  /\ analysisInput = None
  /\ completion = None
  /\ analysis = None
  /\ index = 1
  /\ taskInput = NoTaskInput
  /\ existingLabelMap = <<>>
  /\ labelCursor = 1
  /\ created = <<>>
  /\ updated = <<>>
  /\ errors = <<>>
  /\ thrown = "none"
  /\ trackerLabels = <<>>
  /\ calls = <<>>
  /\ sent = <<>>
  /\ response = "none"
  /\ health = NoHealth
  /\ duplicateErrors = {}
InitCommon == NoRun /\ NoProcess

\* processGitHubEvent or processLLMSuggestions called directly: no delivery,
\* no default assignee configured, the API key configured
PlainConfig == [defaultAssigneeId |-> Undefined, openaiApiKey |-> TRUE]
DirectCall ==
  /\ config = PlainConfig
  /\ build = "github.ts"
  /\ delivery = NoDelivery
  /\ handler = "none"

\* One run of processGitHubEvent on any payload
Init ==
  /\ pc = "start"
  /\ DirectCall
  /\ payload \in Payloads
  /\ suggestions = <<>>
  /\ InitCommon

Next ==
  \/ DetermineEvent
  \/ FetchExistingTasks
  \/ AnalyzeChanges(SeqsUpTo(PipelineSuggestions, MaxSuggestions))
  \/ Gate
  \/ NextSuggestion
  \/ FindUserByName
  \/ ListLabels
  \/ CreateLabel
  \/ Dispatch
  \/ LogAnalysis

Spec == Init /\ [][Next]_vars

\* determineEventType applied to every shape of payload
InitEvent ==
  /\ pc = "start"
  /\ DirectCall
  /\ payload \in AllPayloads
  /\ suggestions = <<>>
  /\ InitCommon

NextEvent == DetermineEvent

SpecEvent == InitEvent /\ [][NextEvent]_vars

\* One delivery to the webhook endpoint, served by either copy of the
\* webhook service; the suggestions of the LLM are confident creates
WebhookSuggestions == { Suggestion("create", 100, Undefined, None, Undefined) }

InitWebhook ==
  /\ pc = "idle"
  /\ config = PlainConfig
  /\ build \in Builds
  /\ delivery = NoDelivery
  /\ handler = "idle"
  /\ payload = NoPayload
  /\ suggestions = <<>>
  /\ InitCommon

NextWebhook ==
  \/ Deliver
  \/ DetermineEvent
  \/ FetchExistingTasks
  \/ AnalyzeChanges(SeqsUpTo(WebhookSuggestions, MaxSuggestions))
  \/ Gate
  \/ NextSuggestion
  \/ Dispatch
  \/ LogAnalysis
  \/ HandlerReturn
  \/ Respond

SpecWebhook == InitWebhook /\ [][NextWebhook]_vars

\* One webhook delivery, a push or an opened pull request, handed to its
\* callback; every outbound call returns or throws: a step that is waiting
\* for its call is eventually taken.  The suggestions name a label the team
\* does not have, so that the loop over the labels is on the way.
LiveDeliveries ==
  { Delivery("push", Undefined, Some(<<"c1">>)),
    Delivery("pull_request", "opened", None) }
LiveSuggestions ==
  { Suggestion("create", 100, Undefined, Some(<<"bug">>), Undefined) }
InitLive ==
  /\ pc = "start"
  /\ config = PlainConfig
  /\ build \in Builds
  /\ delivery \in LiveDeliveries
  /\ handler = "awaiting"
  /\ payload = IF callbackOf(delivery) = "onPush"
                 THEN transformPushPayload(delivery)
                 ELSE transformPullRequestPayload(delivery)
  /\ suggestions = <<>>
  /\ InitCommon

NextLive ==
  \/ DetermineEvent
  \/ FetchExistingTasks
  \/ AnalyzeChanges(SeqsUpTo(LiveSuggestions, MaxSuggestions))
  \/ Gate
  \/ NextSuggestion
  \/ ListLabels
  \/ CreateLabel
  \/ Dispatch
  \/ LogAnalysis
  \/ HandlerReturn
  \/ Respond
Fairness ==
  /\ WF_vars(DetermineEvent)
  /\ WF_vars(FetchExistingTasks)
  /\ WF_vars(AnalyzeChanges(SeqsUpTo(LiveSuggestions, MaxSuggestions)))
  /\ WF_vars(Gate)
  /\ WF_vars(NextSuggestion)
  /\ WF_vars(ListLabels)
  /\ WF_vars(CreateLabel)
  /\ WF_vars(Dispatch)
  /\ WF_vars(LogAnalysis)
  /\ WF_vars(HandlerReturn)
  /\ WF_vars(Respond)

SpecLive == InitLive /\ [][NextLive]_vars /\ Fairness

\* Requests to the webhook endpoint of one process, one after the other
InitHttp ==
  /\ pc = "idle"
  /\ config = PlainConfig
  /\ build \in Builds
  /\ delivery = NoDelivery
  /\ handler = "none"
  /\ payload = NoPayload
  /\ suggestions = <<>>
  /\ InitCommon

NextHttp ==
  \/ Receive
  \/ InitializeServices
  \/ Deliver
  \/ DetermineEvent
  \/ FetchExistingTasks
  \/ AnalyzeChanges(SeqsUpTo(WebhookSuggestions, MaxSuggestions))
  \/ Gate
  \/ NextSuggestion
  \/ Dispatch
  \/ LogAnalysis
  \/ HandlerReturn
  \/ Respond

SpecHttp == InitHttp /\ [][NextHttp]_vars

\* A Logger constructed with or without a level under any LOG_LEVEL, then
\* handed messages of every level
InitLogger ==
  /\ pc = "idle"
  /\ DirectCall
  /\ payload = NoPayload
  /\ suggestions = <<>>
  /\ NoRun
  /\ NoServer
  /\ logEnv \in LogEnvs
  /\ logArg \in {None} \cup { Some(l) : l \in LogLevels }
  /\ logger = None
  /\ logged = <<>>
  /\ enrichInput = NoEnrichInput
  /\ clock = 0
  /\ enriched = <<>>

NextLogger ==
  \/ Construct
  \/ Log

SpecLogger == InitLogger /\ [][NextLogger]_vars

\* enrichTaskDescription called again and again on one suggestion
InitEnrich ==
  /\ pc = "idle"
  /\ DirectCall
  /\ payload = NoPayload
  /\ suggestions = <<>>
  /\ NoRun
  /\ NoServer
  /\ logEnv = Undefined
  /\ logArg = None
  /\ logger = None
  /\ logged = <<>>
  /\ enrichInput \in EnrichInputs
  /\ clock = 0
  /\ enriched = <<>>

NextEnrich == Enrich

SpecEnrich == InitEnrich /\ [][NextEnrich]_vars

\* Calls of healthCheck on one orchestrator, with or without the API key
InitHealth ==
  /\ pc = "idle"
  /\ config \in { [defaultAssigneeId |-> Undefined, openaiApiKey |-> k] : k \in BOOLEAN }
  /\ build = "github.ts"
  /\ delivery = NoDelivery
  /\ handler = "none"
  /\ payload = NoPayload
  /\ suggestions = <<>>
  /\ InitCommon

NextHealth == HealthCheck

SpecHealth == InitHealth /\ [][NextHealth]_vars

\* One call of processLLMSuggestions on confident creates that name labels,
\* against a team that has no label, the label bug or the label bugfix
LabelLists == { <<"Bug">>, <<"bug", "feature">> }
LabelSuggestions ==
  { Suggestion("create", 100, Undefined, Some(l), Undefined) : l \in LabelLists }
TeamLabels ==
  { <<>>, <<[id |-> 1, name |-> "bug"]>>, <<[id |-> 1, name |-> "bugfix"]>> }

InitLabels ==
  /\ pc = "map"
  /\ DirectCall
  /\ payload = [commits |-> Some(<<"c1">>), pull_request |-> FALSE]
  /\ suggestions \in SeqsUpTo(LabelSuggestions, MaxSuggestions)
  /\ eventType = "null"
  /\ existingTasks = <<>>
  /\ analysisInput = None
  /\ completion = None
  /\ analysis = None
  /\ index = 1
  /\ taskInput = NoTaskInput
  /\ existingLabelMap = <<>>
  /\ labelCursor = 1
  /\ created = <<>>
  /\ updated = <<>>
  /\ errors = <<>>
  /\ thrown = "none"
  /\ trackerLabels \in TeamLabels
  /\ calls = <<>>
  /\ sent = <<>>
  /\ response = "none"
  /\ health = NoHealth
  /\ duplicateErrors = {}
  /\ NoProcess

NextLabels ==
  \/ NextSuggestion
  \/ ListLabels
  \/ CreateLabel
  \/ Dispatch

SpecLabels == InitLabels /\ [][NextLabels]_vars

\* One call of processLLMSuggestions on one confident create whose labels
\* repeat a name in another case, against a team without labels
RepeatedLabelLists == { <<"bug", "Bug">>, <<"Bug", "feature", "bug">> }
InitRepeated ==
  /\ pc = "map"
  /\ DirectCall
  /\ payload = [commits |-> Some(<<"c1">>), pull_request |-> FALSE]
  /\ \E l \in RepeatedLabelLists :
       suggestions = << Suggestion("create", 100, Undefined, Some(l), Undefined) >>
  /\ InitCommon

NextRepeated ==
  \/ NextSuggestion
  \/ ListLabels
  \/ CreateLabel
  \/ Dispatch

SpecRepeated == InitRepeated /\ [][NextRepeated]_vars

\* Two calls of processGitHubEvent on the orchestrator that
\* initializeServices built, interleaved at their awaits; the LLM answers
\* with one suggestion: a create that names the label bug, confident or
\* not, or a confident update of T1
InterleavedPayloads ==
  { [commits |-> Some(<<"c1">>), pull_request |-> FALSE],
    [commits |-> None, pull_request |-> TRUE] }
InterleavedLists ==
  { << Suggestion("create", c, Undefined, Some(<<"bug">>), Undefined) >> :
      c \in {69, 100} }
  \cup { << Suggestion("update", 100, "T1", None, Undefined) >> }
InitInterleaved ==
  /\ pc = "start"
  /\ DirectCall
  /\ payload \in InterleavedPayloads
  /\ suggestions = <<>>
  /\ NoRun
  /\ NoUtil
  /\ request = NoRequest
  /\ orchestrator = TRUE
  /\ webhookService = TRUE
  /\ constructions = 1
  /\ served = 0
  /\ current = 1
  /\ \E p \in InterleavedPayloads : parked = Some(Started(p))

NextInterleaved ==
  \/ DetermineEvent
  \/ FetchExistingTasks
  \/ AnalyzeChanges(InterleavedLists)
  \/ Gate
  \/ NextSuggestion
  \/ ListLabels
  \/ CreateLabel
  \/ Dispatch
  \/ LogAnalysis
  \/ Switch

SpecInterleaved == InitInterleaved /\ [][NextInterleaved]_vars

\* One call of processLLMSuggestions on confident suggestions that name an
\* assignee: al is contained in the names of two users, zed in none; with
\* and without LINEAR_DEFAULT_ASSIGNEE_ID
AssigneeNames == {"al", "zed"}
AssigneeSuggestions ==
  { Suggestion(d[1], 100, d[2], None, who) :
      d \in { <<"create", Undefined>>, <<"update", "T1">> }, who \in AssigneeNames }
AssigneeConfigs ==
  { [defaultAssigneeId |-> a, openaiApiKey |-> TRUE] : a \in {Undefined, "U9"} }

InitAssignee ==
  /\ pc = "map"
  /\ config \in AssigneeConfigs
  /\ build = "github.ts"
  /\ delivery = NoDelivery
  /\ handler = "none"
  /\ payload = [commits |-> Some(<<"c1">>), pull_request |-> FALSE]
  /\ suggestions \in SeqsUpTo(AssigneeSuggestions, MaxSuggestions)
  /\ InitCommon

NextAssignee ==
  \/ NextSuggestion
  \/ FindUserByName
  \/ Dispatch

SpecAssignee == InitAssignee /\ [][NextAssignee]_vars

\* One call of processLLMSuggestions on any list of suggestions
InitMapper ==
  /\ pc = "map"
  /\ DirectCall
  /\ payload = [commits |-> Some(<<"c1">>), pull_request |-> FALSE]
  /\ suggestions \in SeqsUpTo(MapperSuggestions, MaxSuggestions)
  /\ InitCommon

NextMapper ==
  \/ NextSuggestion
  \/ FindUserByName
  \/ ListLabels
  \/ CreateLabel
  \/ Dispatch

SpecMapper == InitMapper /\ [][NextMapper]_vars

\* ------------------------------------------------------------------ claims
Mutations == {"createIssueLabel", "createIssue", "updateIssue"}
IssueWrites == {"createIssue", "updateIssue"}
MapperPositions == {"map", "findUser", "listLabels", "createLabel", "dispatch", "mapped"}

CallsOf(i, ops) == { k \in DOMAIN calls : calls[k].idx = i /\ calls[k].op \in ops }
EntriesOf(list, i) == { k \in DOMAIN list : list[k].idx = i }
MutationCalls == { k \in DOMAIN calls : calls[k].op \in Mutations }
\* the loop has gone past suggestion i
Done(i) == i < index \/ pc = "mapped"
Confident(s) == s.confidence >= 70
\* create/update of suggestion i failed: the write failed or the issue
\* could not be retrieved
WriteFailed(i) ==
  \E k \in CallsOf(i, IssueWrites \cup {"issue"}) : ~calls[k].ok
AllCallsOk(i) == \A k \in DOMAIN calls : calls[k].idx = i => calls[k].ok

\* C1: a suggestion with confidence below 0.7 causes no label create, issue
\* create or issue update, and nothing in created, updated or errors is its,
\* wherever it stands in the list and whatever happens to the others.
C1_LowConfidenceSkipped ==
  \A i \in DOMAIN suggestions :
    suggestions[i].confidence < 70 =>
      /\ CallsOf(i, Mutations) = {}
      /\ EntriesOf(created, i) = {}
      /\ EntriesOf(updated, i) = {}
      /\ EntriesOf(errors, i) = {}

\* C1 witness: the run is over, a low-confidence suggestion that names a
\* label stood after a confident one whose label and issue were created
C1_Witness ==
  /\ pc = "mapped"
  /\ Len(suggestions) = 2
  /\ suggestions[2].confidence < 70
  /\ IsSome(suggestions[2].labels)
  /\ IsSome(suggestions[1].labels)
  /\ CallsOf(1, {"createIssueLabel"}) # {}
  /\ Len(created) = 1

\* C3: processLLMSuggestions never throws; every confident suggestion with a
\* dispatch is dispatched whatever failed before it; a failed create/update
\* leaves exactly one entry in errors and none in created/updated; a
\* successful one leaves its issue in created (create) or updated (update).
C3_PartialFailure ==
  /\ pc # "rejected"
  /\ thrown = "none"
  /\ pc = "mapped" => index = Len(suggestions) + 1
  /\ \A i \in DOMAIN suggestions :
       Done(i) =>
         /\ ( /\ Confident(suggestions[i])
              /\ \/ suggestions[i].action = "create"
                 \/ suggestions[i].action = "update"
                    /\ suggestions[i].existingTaskId # Undefined )
            => Cardinality(CallsOf(i, IssueWrites)) = 1
         /\ WriteFailed(i) =>
              /\ Cardinality(EntriesOf(errors, i)) = 1
              /\ EntriesOf(created, i) = {}
              /\ EntriesOf(updated, i) = {}
         /\ (CallsOf(i, IssueWrites) # {} /\ ~WriteFailed(i)) =>
              /\ EntriesOf(errors, i) = {}
              /\ Cardinality(EntriesOf(created, i)) =
                   (IF suggestions[i].action = "create" THEN 1 ELSE 0)
              /\ Cardinality(EntriesOf(updated, i)) =
                   (IF suggestions[i].action = "update" THEN 1 ELSE 0)

\* C3 witness: the first suggestion's create failed, the second one's
\* succeeded
C3_Witness ==
  /\ pc = "mapped"
  /\ Len(suggestions) = 2
  /\ WriteFailed(1)
  /\ Len(errors) = 1 /\ errors[1].idx = 1
  /\ Len(created) = 1 /\ created[1].idx = 2

\* C4: a confident update suggestion without existingTaskId is recorded as
\* exactly one entry of errors and causes no issue create or update; the
\* suggestions after it are processed; when it is the only problem of the
\* batch, errors has length 1.
C4_UpdateWithoutIdIsError ==
  /\ \A i \in DOMAIN suggestions :
       ( /\ Done(i)
         /\ suggestions[i].action = "update"
         /\ Confident(suggestions[i])
         /\ suggestions[i].existingTaskId = Undefined )
       => /\ Cardinality(EntriesOf(errors, i)) = 1
          /\ CallsOf(i, IssueWrites) = {}
  /\ pc = "mapped" => index = Len(suggestions) + 1

\* C5: a suggestion with confidence >= 0.7 whose tracker calls all succeed:
\* create makes exactly one createIssue call, no updateIssue call, and its
\* issue is in created; update with an existingTaskId makes exactly one
\* updateIssue call on that id, no createIssue call, and the issue is in
\* updated; errors gets nothing.  One confident create suggestion alone
\* gives created.length = 1 and errors.length = 0.
C5_ConfidentDispatch ==
  /\ \A i \in DOMAIN suggestions :
       (Done(i) /\ suggestions[i].confidence >= 70 /\ AllCallsOk(i)) =>
         /\ suggestions[i].action = "create" =>
              /\ Cardinality(CallsOf(i, {"createIssue"})) = 1
              /\ CallsOf(i, {"updateIssue"}) = {}
              /\ Cardinality(EntriesOf(created, i)) = 1
              /\ EntriesOf(updated, i) = {}
              /\ EntriesOf(errors, i) = {}
         /\ (suggestions[i].action = "update"
               /\ suggestions[i].existingTaskId # Undefined) =>
              /\ Cardinality(CallsOf(i, {"updateIssue"})) = 1
              /\ \A k \in CallsOf(i, {"updateIssue"}) :
                   calls[k].arg = suggestions[i].existingTaskId
              /\ CallsOf(i, {"createIssue"}) = {}
              /\ \E k \in EntriesOf(updated, i) :
                   updated[k].id = suggestions[i].existingTaskId
              /\ Cardinality(EntriesOf(updated, i)) = 1
              /\ EntriesOf(created, i) = {}
              /\ EntriesOf(errors, i) = {}
  /\ ( /\ pc = "mapped"
       /\ Len(suggestions) = 1
       /\ suggestions[1].action = "create"
       /\ suggestions[1].confidence >= 70
       /\ AllCallsOk(1) )
     => Len(created) = 1 /\ Len(errors) = 0

\* C5 witness: a create at confidence 0.7 exactly and an update of T1, both
\* successful
C5_Witness ==
  /\ pc = "mapped"
  /\ Len(suggestions) = 2
  /\ suggestions[1].action = "create" /\ suggestions[1].confidence = 70
  /\ suggestions[2].action = "update" /\ suggestions[2].existingTaskId = "T1"
  /\ AllCallsOk(1) /\ AllCallsOk(2)
  /\ Len(created) = 1 /\ Len(updated) = 1 /\ Len(errors) = 0

ChatCalls == { k \in DOMAIN calls : calls[k].op = "chat" }
IssuesCalls == { k \in DOMAIN calls : calls[k].op = "issues" }
Parsed == IsSome(completion) /\ Get(completion).kind = "object"

\* C2: when the analysis has shouldCreateTasks = false, processLLMSuggestions
\* is not entered, no label create, issue create or issue update is made
\* whatever suggestions holds, and the run ends without error.
C2_FlagFalseNoMutation ==
  (IsSome(analysis) /\ ~Get(analysis).shouldCreateTasks) =>
    /\ pc \in {"gate", "resolved"}
    /\ MutationCalls = {}
    /\ \A k \in DOMAIN calls : calls[k].idx = 0
    /\ created = <<>> /\ updated = <<>> /\ errors = <<>>
    /\ thrown = "none"

\* C2 witness: the run resolved on shouldCreateTasks = false with a
\* confidence-1.0 create suggestion that names a label in the list
C2_Witness ==
  /\ pc = "resolved"
  /\ IsSome(analysis)
  /\ ~Get(analysis).shouldCreateTasks
  /\ Parsed /\ Get(completion).shouldCreateTasks = Some(FALSE)
  /\ Len(Get(analysis).suggestions) = 2
  /\ \A i \in 1..2 : /\ Get(analysis).suggestions[i].action = "create"
                      /\ Get(analysis).suggestions[i].confidence = 100
                      /\ IsSome(Get(analysis).suggestions[i].labels)

\* C6: the existing-task fetch precedes the LLM call, the LLM call precedes
\* the gate, the gate precedes the mapping; no call of the mapper, and so no
\* tracker mutation, comes before the LLM call returned a parsed result; an
\* empty suggestions list with shouldCreateTasks = true ends the run without
\* error and without mutation.
C6_PipelineOrder ==
  /\ \A k \in ChatCalls : \E j \in IssuesCalls : j < k
  /\ pc \in {"gate"} \cup MapperPositions =>
       /\ ChatCalls # {}
       /\ Parsed /\ IsSome(analysis)
  /\ pc \in MapperPositions =>
       /\ Get(analysis).shouldCreateTasks
       /\ Len(Get(analysis).suggestions) > 0
       /\ suggestions = Get(analysis).suggestions
  /\ \A k \in DOMAIN calls :
       (calls[k].idx > 0 \/ calls[k].op \in Mutations) =>
         /\ \E j \in ChatCalls : j < k /\ calls[j].ok
         /\ Parsed
         /\ Get(analysis).shouldCreateTasks
         /\ Len(Get(analysis).suggestions) > 0
  /\ ( /\ IsSome(analysis)
       /\ Get(analysis).shouldCreateTasks
       /\ Len(Get(analysis).suggestions) = 0 )
     => /\ pc \in {"gate", "resolved"}
        /\ thrown = "none"
        /\ MutationCalls = {}

\* C6 witness: a run that fetched, analysed, created a label and an issue
\* and resolved
C6_Witness ==
  /\ pc = "resolved"
  /\ Len(calls) >= 5
  /\ calls[1].op = "issues"
  /\ calls[2].op = "chat"
  /\ calls[3].op = "issueLabels"
  /\ calls[4].op = "createIssueLabel" /\ calls[4].ok
  /\ calls[5].op = "createIssue" /\ calls[5].ok
  /\ Len(created) >= 1

\* C7 as stated: when the LLM response content is absent or no JSON, the run
\* rejects with the error of analyzeGitHubChanges and no tracker call at all
\* is made during the event.
C7_NoTrackerCallAtAll ==
  (IsSome(completion) /\ Get(completion).kind \in {"absent", "notjson"}) =>
    /\ pc = "rejected"
    /\ thrown = (IF Get(completion).kind = "absent"
                   THEN "LLM analysis failed: No response from LLM"
                   ELSE "LLM analysis failed: Failed to parse LLM JSON response")
    /\ \A k \in DOMAIN calls : calls[k].op = "chat"

\* C7 amended: when the LLM response content is absent or no JSON, the run
\* rejects with the error of analyzeGitHubChanges (no analysis result is
\* produced), no tracker mutation is made, and the only tracker call of the
\* event is the existing-task query made before the LLM call.
C7_RejectsWithoutMutation ==
  (IsSome(completion) /\ Get(completion).kind \in {"absent", "notjson"}) =>
    /\ pc = "rejected"
    /\ thrown = (IF Get(completion).kind = "absent"
                   THEN "LLM analysis failed: No response from LLM"
                   ELSE "LLM analysis failed: Failed to parse LLM JSON response")
    /\ analysis = None
    /\ MutationCalls = {}
    /\ \A k \in DOMAIN calls :
         calls[k].op # "chat" =>
           /\ calls[k].op = "issues"
           /\ \A j \in ChatCalls : k < j

\* C7 witness: the run rejected on a response that is no JSON
C7_Witness ==
  /\ pc = "rejected"
  /\ IsSome(completion)
  /\ Get(completion).kind = "notjson"
  /\ Len(calls) = 2

\* C8: when the existing-task query fails, the failure does not reach the
\* caller: the LLM is called next and once, with context.existingTasks = [],
\* and the run goes on from there.
C8_FetchFailureDegrades ==
  (\E k \in IssuesCalls : ~calls[k].ok) =>
    /\ existingTasks = <<>>
    /\ \/ pc = "llm" /\ ChatCalls = {}
       \/ /\ Cardinality(ChatCalls) = 1
          /\ IsSome(analysisInput)
          /\ Get(analysisInput).existingTasks = <<>>
    /\ pc = "rejected" => (IsSome(completion) /\ ~Parsed)

\* C8 witness: the fetch failed and the run still created an issue and
\* resolved
C8_Witness ==
  /\ pc = "resolved"
  /\ \E k \in IssuesCalls : ~calls[k].ok
  /\ Cardinality(ChatCalls) = 1
  /\ Len(created) = 1

\* C9: for every response that parses as a JSON object analyzeGitHubChanges
\* returns a result: suggestions is [] if it was missing, shouldCreateTasks
\* false if it was missing, summary 'Analysis completed' if it was missing;
\* a response without shouldCreateTasks leads to no tracker mutation even
\* when its suggestions are not empty.
C9_MissingFieldsDefaulted ==
  Parsed =>
    /\ IsSome(analysis)
    /\ thrown = "none"
    /\ Get(completion).suggestions = None => Get(analysis).suggestions = <<>>
    /\ Get(completion).shouldCreateTasks = None => ~Get(analysis).shouldCreateTasks
    /\ Get(completion).summary = None => Get(analysis).summary = "Analysis completed"
    /\ Get(completion).shouldCreateTasks = None => MutationCalls = {}

\* C9 witness: the run resolved on a response without shouldCreateTasks and
\* without summary whose suggestions hold a confident create
C9_Witness ==
  /\ pc = "resolved"
  /\ Parsed
  /\ Get(completion).shouldCreateTasks = None
  /\ Get(completion).summary = None
  /\ IsSome(Get(completion).suggestions)
  /\ \E i \in DOMAIN Get(analysis).suggestions :
       /\ Get(analysis).suggestions[i].action = "create"
       /\ Get(analysis).suggestions[i].confidence = 100

\* C10: in one run the existing-task query and the chat completion are each
\* issued at most once, and each suggestion causes at most one issue create
\* or update call, whether the calls succeed or fail.
C10_NoRetry ==
  /\ Cardinality(IssuesCalls) <= 1
  /\ Cardinality(ChatCalls) <= 1
  /\ \A i \in DOMAIN suggestions : Cardinality(CallsOf(i, IssueWrites)) <= 1

\* C10 witness: the run resolved after a failed fetch and a failed create
C10_Witness ==
  /\ pc = "resolved"
  /\ \E k \in IssuesCalls : ~calls[k].ok
  /\ Len(suggestions) = 2
  /\ \E k \in CallsOf(1, {"createIssue"}) : ~calls[k].ok
  /\ Cardinality(CallsOf(2, IssueWrites)) = 1

\* C11: determineEventType answers push for every payload whose commits are
\* a non-empty list, else pull_request for every payload with a pull_request
\* object, else null, and nothing else; commits absent or empty and no
\* pull_request give null.
NonEmptyCommits(p) == IsSome(p.commits) /\ Get(p.commits) # <<>>
C11_EventType ==
  pc # "start" =>
    /\ eventType \in {"push", "pull_request", "null"}
    /\ eventType = "push" <=> NonEmptyCommits(payload)
    /\ eventType = "pull_request" <=>
         ~NonEmptyCommits(payload) /\ payload.pull_request
    /\ eventType = "null" <=>
         ~NonEmptyCommits(payload) /\ ~payload.pull_request

\* C11 witness: a payload with commits and a pull_request object was
\* classified as a push
C11_Witness ==
  /\ pc # "start"
  /\ NonEmptyCommits(payload)
  /\ payload.pull_request
  /\ eventType = "push"

\* C12: a delivery whose payload gives no event kind (a push without
\* commits) makes processGitHubEvent resolve without an error, and no
\* existing-task fetch, LLM call or tracker mutation is made.
NoKind(d) == d.event = "push" /\ (d.commits = None \/ d.commits = Some(<<>>))
C12_NoKindNoCalls ==
  NoKind(delivery) =>
    /\ pc \in {"start", "resolved"}
    /\ thrown = "none"
    /\ calls = <<>>
    /\ sent = <<>>
    /\ handler # "rejected"

\* C12 witness: a push with an empty commits list went through
\* processGitHubEvent, which resolved
C12_Witness ==
  /\ delivery.event = "push"
  /\ delivery.commits = Some(<<>>)
  /\ eventType = "null"
  /\ pc = "resolved"
  /\ handler = "resolved"
  /\ calls = <<>>

\* C13: for a pull_request delivery the onPullRequest callback is invoked
\* exactly when the action is opened, closed, reopened, synchronize or
\* ready_for_review; with any other action the handler completes without an
\* error and without the callback.
CallbackInvoked == pc # "idle"
C13_ProcessedActions ==
  delivery.event = "pull_request" =>
    /\ CallbackInvoked <=>
         delivery.action \in {"opened", "closed", "reopened", "synchronize",
                              "ready_for_review"}
    /\ ~CallbackInvoked =>
         /\ handler = "resolved"
         /\ thrown = "none"
         /\ calls = <<>>

\* C13 witness: a ready_for_review delivery went through the callback and
\* the pipeline created an issue
C13_Witness ==
  /\ delivery.event = "pull_request"
  /\ delivery.action = "ready_for_review"
  /\ eventType = "pull_request"
  /\ pc = "resolved"
  /\ Len(created) = 1
  /\ handler = "resolved"

\* C14: when the pipeline fails for a push or an accepted pull_request
\* delivery, the event handler rejects and the HTTP response is the error
\* payload, never the success one.
C14_FailureReachesBoundary ==
  pc = "rejected" =>
    /\ handler \in {"awaiting", "rejected"}
    /\ response \in {"none", "error"}

\* C15: healthCheck answers healthy exactly when the tracker probe
\* succeeded and the LLM API key is configured; a failed tracker list call
\* gives services.linear = error and status degraded; an absent key gives
\* services.llm = not_configured and status degraded; no LLM call is made.
LastProbe == calls[Len(calls)]
C15_HealthReflectsProbe ==
  health # NoHealth =>
    /\ health.status = "healthy" <=> LastProbe.ok /\ config.openaiApiKey
    /\ ~LastProbe.ok =>
         health.services.linear = "error" /\ health.status = "degraded"
    /\ ~config.openaiApiKey =>
         health.services.llm = "not_configured" /\ health.status = "degraded"
    /\ \A k \in DOMAIN calls : calls[k].op # "chat"

\* C16: within one run of processLLMSuggestions the suggestions are handled
\* one after the other in input order: every tracker call for suggestion i
\* is made and answered before any call for suggestion i+1, no call is made
\* for a suggestion the loop has not reached, and the entries of created,
\* updated and errors stand in input order.
InInputOrder(list) ==
  \A j, k \in DOMAIN list : j < k => list[j].idx < list[k].idx
C16_Sequential ==
  /\ \A j, k \in DOMAIN calls : j < k => calls[j].idx <= calls[k].idx
  /\ \A k \in DOMAIN calls : 1 <= calls[k].idx /\ calls[k].idx <= index
  /\ InInputOrder(created)
  /\ InInputOrder(updated)
  /\ InInputOrder(errors)

\* C16 witness: two suggestions, both with tracker calls, both failed
C16_Witness ==
  /\ pc = "mapped"
  /\ Len(suggestions) = 2
  /\ Len(errors) = 2
  /\ CallsOf(1, {"issueLabels"}) # {}
  /\ CallsOf(2, {"users"}) # {}

\* ------------------------------------------------------- claims on labels
Range(q) == { q[i] : i \in DOMAIN q }
Labels(k) == Get(suggestions[k].labels)
SameIgnoringCase(a, b) ==
  \/ a = b
  \/ {a, b} = {"bug", "Bug"}
  \/ {a, b} = {"bugfix", "Bugfix"}
\* the name hay, lower-cased, contains the name needle, lower-cased
Loosely(hay, needle) ==
  \/ SameIgnoringCase(hay, needle)
  \/ hay \in {"bugfix", "Bugfix"} /\ needle \in {"bug", "Bug"}
CreateCalls(k) == CallsOf(k, {"createIssueLabel"})
ListedOk(k) == \E c \in CallsOf(k, {"issueLabels"}) : calls[c].ok
\* how many labels the team had when suggestion k listed them
LabelsBefore(k) ==
  Len(trackerLabels)
    - Cardinality({ c \in DOMAIN calls : /\ calls[c].op = "createIssueLabel"
                                         /\ calls[c].ok
                                         /\ calls[c].idx >= k })
SentFor(k) == { p \in DOMAIN sent : sent[p].idx = k }
SentIds(p) == Range(Get(sent[p].labelIds))
CreatedEarlier(k, name) ==
  \E c \in DOMAIN calls :
    /\ calls[c].op = "createIssueLabel"
    /\ calls[c].ok
    /\ calls[c].idx < k
    /\ SameIgnoringCase(calls[c].arg, name)
NoSecondCreate(k, name) ==
  \A c \in CreateCalls(k) : ~SameIgnoringCase(calls[c].arg, name)
IdReused(k, name) ==
  \A p \in SentFor(k) :
    \E t \in 1..LabelsBefore(k) :
      /\ SameIgnoringCase(trackerLabels[t].name, name)
      /\ trackerLabels[t].id \in SentIds(p)

\* C17 as stated: once an earlier suggestion of the run has created a label
\* name, every later suggestion requesting that name (ignoring case) reuses
\* the label's id and makes no second create-label call.
C17_AlwaysReused ==
  \A k \in DOMAIN suggestions : \A j \in DOMAIN Labels(k) :
    Done(k) /\ CreatedEarlier(k, Labels(k)[j]) =>
      /\ NoSecondCreate(k, Labels(k)[j])
      /\ IdReused(k, Labels(k)[j])

\* C17 amended: no later suggestion requesting the name makes a second
\* create-label call, and it reuses the label's id whenever its own listing
\* of the team's labels succeeded.
C17_ReusedWhenListed ==
  \A k \in DOMAIN suggestions : \A j \in DOMAIN Labels(k) :
    Done(k) /\ CreatedEarlier(k, Labels(k)[j]) =>
      /\ NoSecondCreate(k, Labels(k)[j])
      /\ ListedOk(k) => IdReused(k, Labels(k)[j])

\* C17 witness: the first suggestion created bug, the second asked for Bug
\* and its issue was sent with the id of bug, without a create-label call
C17_Witness ==
  /\ pc = "mapped"
  /\ Len(suggestions) = 2
  /\ Labels(1) = <<"bug", "feature">>
  /\ Labels(2) = <<"Bug">>
  /\ \E c \in CreateCalls(1) : calls[c].ok /\ calls[c].arg = "bug"
  /\ CreateCalls(2) = {}
  /\ \E p \in SentFor(2) : sent[p].labelIds = Some(<<1>>)

Justified(k, id) ==
  \E j \in DOMAIN Labels(k) : \E t \in DOMAIN trackerLabels :
    /\ trackerLabels[t].id = id
    /\ IF t <= LabelsBefore(k)
         THEN Loosely(trackerLabels[t].name, Labels(k)[j])
         ELSE trackerLabels[t].name = Labels(k)[j]

\* C19 amended: a failure around labels is never fatal.  findOrCreateLabels
\* does not throw; a failed create-label call drops that label only, or puts
\* in its place a label of the team whose name contains the requested one,
\* and the other labels are still resolved; a failed listing drops every
\* label of the suggestion and makes no create-label call; the issue is
\* still dispatched; errors gets no entry because of a label.
C19_LabelFailureTolerated ==
  /\ pc # "rejected"
  /\ thrown = "none"
  /\ \A k \in DOMAIN suggestions :
       Done(k) =>
         /\ Cardinality(CallsOf(k, {"createIssue"})) = 1
         /\ Cardinality(SentFor(k)) = 1
         /\ EntriesOf(errors, k) # {} => WriteFailed(k)
         /\ \A p \in SentFor(k) : \A id \in SentIds(p) : Justified(k, id)
         /\ ~ListedOk(k) =>
              /\ CreateCalls(k) = {}
              /\ \A p \in SentFor(k) : SentIds(p) = {}
         /\ ListedOk(k) =>
              \A j \in DOMAIN Labels(k) :
                \/ \E t \in 1..LabelsBefore(k) :
                     /\ SameIgnoringCase(trackerLabels[t].name, Labels(k)[j])
                     /\ \A p \in SentFor(k) : trackerLabels[t].id \in SentIds(p)
                \/ \E c \in CreateCalls(k) :
                     /\ calls[c].arg = Labels(k)[j]
                     /\ calls[c].ok =>
                          \E t \in DOMAIN trackerLabels :
                            /\ t > LabelsBefore(k)
                            /\ trackerLabels[t].name = Labels(k)[j]
                            /\ \A p \in SentFor(k) : trackerLabels[t].id \in SentIds(p)

\* C19 as stated: the only labels missing from what is sent are those whose
\* own create-label call failed, also when the listing failed.
Resolved(k, j) ==
  \E t \in DOMAIN trackerLabels :
    /\ IF t <= LabelsBefore(k)
         THEN SameIgnoringCase(trackerLabels[t].name, Labels(k)[j])
         ELSE trackerLabels[t].name = Labels(k)[j]
    /\ \A p \in SentFor(k) : trackerLabels[t].id \in SentIds(p)
C19_OnlyFailedLabelDropped ==
  /\ pc # "rejected"
  /\ thrown = "none"
  /\ \A k \in DOMAIN suggestions :
       Done(k) =>
         /\ Cardinality(CallsOf(k, {"createIssue"})) = 1
         /\ EntriesOf(errors, k) # {} => WriteFailed(k)
         /\ \A j \in DOMAIN Labels(k) :
              \/ Resolved(k, j)
              \/ \E c \in CreateCalls(k) : calls[c].arg = Labels(k)[j] /\ ~calls[c].ok

\* C19 witness: the team has bugfix; the create of bug failed as a duplicate
\* and bugfix took its place, the create of feature succeeded, the issue was
\* created with both ids and errors is empty
C19_Witness ==
  /\ pc = "mapped"
  /\ Len(suggestions) = 1
  /\ Labels(1) = <<"bug", "feature">>
  /\ trackerLabels = <<[id |-> 1, name |-> "bugfix"], [id |-> 2, name |-> "feature"]>>
  /\ \E c \in CreateCalls(1) : calls[c].arg = "bug" /\ ~calls[c].ok
  /\ sent[1].labelIds = Some(<<1, 2>>)
  /\ Len(created) = 1
  /\ errors = <<>>

\* ---------------------------------------------------- claims on assignees
UsersCalls(k) == CallsOf(k, {"users"})
\* the lookup for suggestion k failed or found nobody
NoUserFound(k) ==
  \A c \in UsersCalls(k) : ~calls[c].ok \/ UsersMatching(calls[c].arg) = <<>>
Dispatched(k) ==
  /\ Cardinality(CallsOf(k, IssueWrites)) = 1
  /\ Cardinality(SentFor(k)) = 1
  /\ EntriesOf(errors, k) # {} => WriteFailed(k)
FirstUserSent(k) ==
  \A p \in SentFor(k) :
    sent[p].assigneeId = UsersMatching(suggestions[k].assignee)[1]

EarlyRejected(req) ==
  \/ req.method = "GET"
  \/ req.method = "POST" /\ (~req.event \/ ~req.signature)
StatusOf(req) ==
  IF req.method = "GET" THEN "405" ELSE IF ~req.event THEN "400" ELSE "401"

\* C21: the webhook handler answers 405 to a request that is not a POST, 400
\* to a POST without the event header and 401 to a POST without the
\* signature header; such a request initializes no service and runs no part
\* of the pipeline, and its one response is never replaced.
C21_EarlyRejections ==
  /\ [](EarlyRejected(request) =>
          /\ response = StatusOf(request)
          /\ handler = "none"
          /\ pc = "idle"
          /\ calls = <<>>
          /\ sent = <<>>)
  /\ [][EarlyRejected(request') =>
          UNCHANGED <<orchestrator, webhookService, constructions>>]_vars

\* C21 witness: a POST without the signature header, received after a
\* request that initialized the services, was answered with 401
C21_Witness ==
  /\ served = 2
  /\ request = [method |-> "POST", event |-> TRUE, signature |-> FALSE]
  /\ response = "401"
  /\ orchestrator
  /\ calls = <<>>

\* C28: over the requests of one process the services are built at most
\* once, the orchestrator is set exactly when the webhook service is, and an
\* initialization that threw leaves both unset, so that the next request
\* initializes again.
C28_BuiltOnce ==
  /\ constructions <= 1
  /\ orchestrator <=> webhookService
  /\ orchestrator <=> constructions = 1
  /\ response = "500" => ~orchestrator /\ ~webhookService

\* C28 witness: the initialization of the first request threw, the second
\* request built the services and went on into the pipeline
C28_Witness ==
  /\ served = 2
  /\ constructions = 1
  /\ orchestrator
  /\ webhookService
  /\ handler = "awaiting"
  /\ pc = "resolved"
  /\ calls # <<>>

\* ------------------------------------------------- claims on the helpers
\* a text without its last piece, the Generated timestamp
WithoutTimestamp(text) == SubSeq(text, 1, Len(text) - 1)
IsPrefix(p, q) == Len(p) <= Len(q) /\ SubSeq(q, 1, Len(p)) = p
TrailerCount(text) ==
  Cardinality({ i \in DOMAIN text : text[i].s = "Generated:" })

\* C22: two calls of enrichTaskDescription with the same suggestion and
\* repository give the same text but for the Generated timestamp; the
\* description of the suggestion is a prefix of the text; the suggestion is
\* not changed, so that a second call does not stack a second trailer.
C22_EnrichDeterministic ==
  /\ [](\A i, j \in DOMAIN enriched :
          /\ WithoutTimestamp(enriched[i]) = WithoutTimestamp(enriched[j])
          /\ IsPrefix(enrichInput.description, enriched[i])
          /\ TrailerCount(enriched[i]) = 1)
  /\ [][enrichInput' = enrichInput]_vars

\* C22 witness: two calls at different times gave texts that differ in the
\* timestamp only, on a description that ends like the trailer begins
C22_Witness ==
  /\ Len(enriched) = 2
  /\ enriched[1] # enriched[2]
  /\ Len(enrichInput.description) = 2
  /\ enrichInput.confidence = 695
  /\ enrichInput.estimateHours = Some(2)

\* the level a Logger is meant to have: the one passed, else the one of
\* LOG_LEVEL, else info
ConfiguredLevel ==
  IF IsSome(logArg) THEN Get(logArg)
  ELSE IF logEnv \in {"debug", "DEBUG"} THEN 0
  ELSE IF logEnv = "warn" THEN 2
  ELSE IF logEnv = "error" THEN 3
  ELSE 1

\* C23: with LOG_LEVEL=debug and no level passed, the Logger emits debug
\* messages; a message is emitted exactly when its level is at or above the
\* configured level; the level is info when LOG_LEVEL is unset.
C23_EmittedIffAtOrAbove ==
  \A k \in DOMAIN logged :
    logged[k].emitted <=> logged[k].level >= ConfiguredLevel

\* ----------------------------------------------- claims on the three lists
\* createTask / updateTask of suggestion i returned an issue: the write and
\* the retrieval of the issue both succeeded
Succeeded(i, op) ==
  /\ \E c \in CallsOf(i, {op}) : calls[c].ok
  /\ \A c \in CallsOf(i, {"issue"}) : calls[c].ok
InLists(i) ==
  Cardinality(EntriesOf(created, i)) + Cardinality(EntriesOf(updated, i))
    + Cardinality(EntriesOf(errors, i))

\* C24: after processLLMSuggestions on n suggestions, created, updated and
\* errors together have at most n entries, each suggestion is in at most one
\* of the lists, created has as many entries as create calls succeeded and
\* updated as many as update calls succeeded; every suggestion in none of
\* the lists was skipped by the confidence gate.
C24_ListsAccountForAll ==
  pc = "mapped" =>
    /\ Len(created) + Len(updated) + Len(errors) <= Len(suggestions)
    /\ \A i \in DOMAIN suggestions : InLists(i) <= 1
    /\ Len(created) =
         Cardinality({ i \in DOMAIN suggestions : Succeeded(i, "createIssue") })
    /\ Len(updated) =
         Cardinality({ i \in DOMAIN suggestions : Succeeded(i, "updateIssue") })
    /\ \A i \in DOMAIN suggestions :
         InLists(i) = 0 => suggestions[i].confidence < 70

\* ------------------------------------------------- claims on updateTask
UpdateKeys == {"title", "description", "priority", "assigneeId", "labelIds",
               "projectId"}
UpdatesSent == { p \in DOMAIN sent : sent[p].op = "updateIssue" }

\* C25: updateTask sends only those of title, description, priority,
\* assigneeId, labelIds and projectId that are defined in its updates and
\* never teamId; an update from a suggestion with no resolved assignee and
\* no labels field sends neither assigneeId nor labelIds, and the configured
\* default assignee is not applied.
C25_UpdateSendsDefinedOnly ==
  \A p \in UpdatesSent :
    LET k == sent[p].idx
    IN /\ sent[p].keys \subseteq UpdateKeys
       /\ "teamId" \notin sent[p].keys
       /\ {"title", "description", "priority"} \subseteq sent[p].keys
       /\ "projectId" \notin sent[p].keys
       /\ "assigneeId" \in sent[p].keys <=> ~NoUserFound(k)
       /\ "labelIds" \in sent[p].keys <=> IsSome(suggestions[k].labels)
       /\ NoUserFound(k) => sent[p].assigneeId = Undefined
       /\ suggestions[k].labels = None => sent[p].labelIds = None

\* C25 witness: a default assignee is configured; the update of T1 names zed,
\* whom the lookup does not find, and has no labels; updateIssue was sent
\* with title, description and priority only and the issue is in updated
C25_Witness ==
  /\ pc = "mapped"
  /\ config.defaultAssigneeId = "U9"
  /\ Len(suggestions) = 1
  /\ suggestions[1].action = "update"
  /\ suggestions[1].assignee = "zed"
  /\ Len(sent) = 1
  /\ sent[1].op = "updateIssue"
  /\ sent[1].keys = {"title", "description", "priority"}
  /\ Len(updated) = 1

\* ------------------------------------------------ claims on repeated names
CreateCallsFor(k, name) ==
  { c \in CreateCalls(k) : SameIgnoringCase(calls[c].arg, name) }

\* C26: within one findOrCreateLabels call a name that the team does not
\* have and that occurs more than once in the list, ignoring case, causes at
\* most one create-label call, and the id of the label created for it is
\* sent with the issue.
C26_RepeatedNameCreatedOnce ==
  \A k \in DOMAIN suggestions :
    (Done(k) /\ ListedOk(k)) =>
      \A j \in DOMAIN Labels(k) :
        /\ Cardinality(CreateCallsFor(k, Labels(k)[j])) <= 1
        /\ \A c \in CreateCallsFor(k, Labels(k)[j]) :
             calls[c].ok =>
               \A p \in SentFor(k) :
                 \E t \in DOMAIN trackerLabels :
                   /\ trackerLabels[t].name = calls[c].arg
                   /\ trackerLabels[t].id \in SentIds(p)

\* ----------------------------------------------- claims on interleaved runs
Runs == {Running} \cup (IF IsSome(parked) THEN {Get(parked)} ELSE {})
\* run r created the label of that name
CreatedLabel(r, name) ==
  \E c \in DOMAIN r.calls :
    /\ r.calls[c].op = "createIssueLabel"
    /\ r.calls[c].arg = name
    /\ r.calls[c].ok
LabelIdsOf(name) ==
  { trackerLabels[t].id : t \in { u \in DOMAIN trackerLabels :
                                    trackerLabels[u].name = name } }

\* C27: two runs listed the labels before either created the one both need;
\* the run whose create-label call failed as a duplicate still dispatches
\* its issue, and the issue carries the id of the label that now exists.
C27_DuplicateLoserCarriesLabel ==
  \A r \in Runs : \A o \in Runs \ {r} : \A name \in r.duplicateErrors :
    (r.pc \in {"mapped", "resolved"} /\ CreatedLabel(o, name)) =>
      /\ Len(r.sent) = 1
      /\ \E id \in LabelIdsOf(name) : id \in Range(Get(r.sent[1].labelIds))

\* the entries of a run's lists are outcomes of the run's own calls
OkCalls(r, op) == { c \in DOMAIN r.calls : r.calls[c].op = op /\ r.calls[c].ok }
Retrieved(r) == { c \in DOMAIN r.calls : r.calls[c].op = "issue" /\ r.calls[c].ok }
FailedWrites(r) ==
  { c \in DOMAIN r.calls :
      r.calls[c].op \in {"createIssue", "updateIssue", "issue"} /\ ~r.calls[c].ok }
OwnOutcomes(r) ==
  /\ \A k \in DOMAIN r.created :
       /\ r.created[k].idx \in DOMAIN r.suggestions
       /\ r.suggestions[r.created[k].idx].action = "create"
  /\ \A k \in DOMAIN r.updated :
       /\ r.updated[k].idx \in DOMAIN r.suggestions
       /\ r.suggestions[r.updated[k].idx].action = "update"
       /\ r.suggestions[r.updated[k].idx].existingTaskId = r.updated[k].id
  /\ \A k \in DOMAIN r.errors : r.errors[k].idx \in DOMAIN r.suggestions
  /\ Len(r.created) + Len(r.updated) = Cardinality(Retrieved(r))
  /\ Len(r.created) <= Cardinality(OkCalls(r, "createIssue"))
  /\ Len(r.updated) <= Cardinality(OkCalls(r, "updateIssue"))
  /\ Len(r.errors) = Cardinality(FailedWrites(r))
\* the gating decisions of a run follow from its own payload and LLM result
OwnGating(r) ==
  /\ r.pc # "start" =>
       r.eventType = IF r.payload.pull_request THEN "pull_request"
                     ELSE IF NonEmptyCommits(r.payload) THEN "push"
                     ELSE "null"
  /\ r.calls # <<>> => r.eventType # "null"
  /\ r.pc \in MapperPositions =>
       /\ IsSome(r.completion)
       /\ Get(r.completion).shouldCreateTasks = Some(TRUE)
       /\ Get(r.completion).suggestions = Some(r.suggestions)
       /\ r.suggestions # <<>>
  /\ \A c \in DOMAIN r.calls :
       r.calls[c].idx # 0 =>
         /\ r.calls[c].idx \in DOMAIN r.suggestions
         /\ r.suggestions[r.calls[c].idx].confidence >= 70

\* C30: when two runs of processGitHubEvent on the shared orchestrator
\* interleave at their awaits, the created, updated and errors lists of each
\* run hold outcomes of its own suggestions only, its event kind and its two
\* gates follow from its own payload and LLM result, and the configuration
\* held by the orchestrator and its services is never written.
C30_RunsIndependent ==
  /\ [](\A r \in Runs : OwnOutcomes(r) /\ OwnGating(r))
  /\ [][config' = config]_vars

\* C30 witness: both runs, one for a push and one for a pull request, listed
\* the labels before either created bug, so the team has two labels from
\* two creates; one run created its issue, the other run's create failed
\* and is in its errors, and both have finished
C30_Witness ==
  /\ IsSome(parked)
  /\ Get(parked).pc = "resolved"
  /\ pc = "resolved"
  /\ payload # Get(parked).payload
  /\ Len(trackerLabels) = 2
  /\ Len(created) = 1
  /\ errors = <<>>
  /\ Get(parked).created = <<>>
  /\ Len(Get(parked).errors) = 1

\* ---------------------------------------------------- claims on termination
RunFinished == pc \in {"resolved", "rejected"}

\* C29: when every outbound call returns or throws, a run of
\* processGitHubEvent that has started eventually resolves or rejects, the
\* handler that awaits it eventually answers, and the webhook endpoint
\* answers only after the run of the delivery has finished.
C29_RunsFinish ==
  /\ (pc = "start") ~> RunFinished
  /\ (handler = "awaiting") ~> (response # "none")
  /\ [](response # "none" => RunFinished)

\* C29 witness: the run went through its two suggestions, created both
\* issues and resolved, and the endpoint has answered
C29_Witness ==
  /\ response = "success"
  /\ pc = "resolved"
  /\ Len(suggestions) = 2
  /\ index = 3
  /\ Len(created) = 2

====
